---- MODULE Spec2Model ----
(***************************************************************************)
(* Playback controller of the video comparison tool (src/main.py, class    *)
(* VideoCompareApp) and the divider of its overlay widget (class           *)
(* OverlayVideoLabel).  One action per Qt slot / timer callback; every     *)
(* handler is an operator from the application state (a record of the      *)
(* object's fields) to the state it leaves, so that a handler calling      *)
(* another one (update_frames -> stop_videos -> display_initial_frames) is  *)
(* one atomic step, as in the single-threaded event loop.                  *)
(*                                                                         *)
(* Units: frame rates are kept in 1/FpsScale frames per second so that     *)
(* rates such as 0.2 fps are integers; times are rationals [n, d] in       *)
(* milliseconds, compared by cross-multiplication (the code uses floats).  *)
(***************************************************************************)
EXTENDS Integers, Sequences, FiniteSets, TLC

\* ------------------------------------------------------------------ bounds
MaxFrames == 2
\* nested calls the interpreter allows before it raises RecursionError (1000
\* by default)
RecursionLimit == 3

\* ------------------------------------------------- units and input catalogue
\* cap.get(CAP_PROP_FPS) is a float; a rate r stands for r / FpsScale fps
FpsScale == 20
MsPerSec == 1000
\* setMinimumSize(400, 225) of the overlay widget
MinimumWidth == 400
\* width of the draggable area around the divider
handle_width == 10

\* the files the user can pick: a damaged one (it opens, but reports rate 0
\* and yields no frame), a 10.0 s and an 8.0 s clip at 0.5 fps, and a 1.5 fps
\* clip
Videos ==
    { [fps |-> 0,  frames |-> 0, width |-> 640, displayable |-> TRUE],
      [fps |-> 10, frames |-> 5, width |-> 640, displayable |-> TRUE],
      [fps |-> 10, frames |-> 4, width |-> 640, displayable |-> TRUE],
      [fps |-> 30, frames |-> MaxFrames, width |-> 640, displayable |-> TRUE] }

\* clips whose frames are unusual: one, two and three columns wide, and one
\* whose frames display_frame cannot convert
FrameVideos ==
    { [fps |-> 10, frames |-> 2, width |-> 1, displayable |-> TRUE],
      [fps |-> 10, frames |-> 2, width |-> 2, displayable |-> TRUE],
      [fps |-> 10, frames |-> 2, width |-> 3, displayable |-> TRUE],
      [fps |-> 10, frames |-> 2, width |-> 640, displayable |-> FALSE] }
\* an ordinary clip to go with them
PlainVideo == [fps |-> 10, frames |-> 2, width |-> 640, displayable |-> TRUE]

\* what the two file dialogs of load_videos can return
NotSelected == [kind |-> "none", fps |-> 0, frames |-> 0, width |-> 0,
                displayable |-> TRUE]
Unopenable  == [kind |-> "bad", fps |-> 0, frames |-> 0, width |-> 0,
                displayable |-> TRUE]
AsSelection(v) == [kind |-> "video", fps |-> v.fps, frames |-> v.frames,
                   width |-> v.width, displayable |-> v.displayable]
Openable    == {AsSelection(v) : v \in Videos}
Selections  == Openable \cup {NotSelected, Unopenable}

\* ------------------------------------------------------- rational helpers
Rat(n, d) == [n |-> n, d |-> d]
RatGE(a, b) == a.n * b.d >= b.n * a.d
RatLE(a, b) == a.n * b.d <= b.n * a.d
\* (mutant: the longer duration bounds the seek range)
RatMin_max(a, b) == IF RatGE(a, b) THEN a ELSE b
\* Python min(a, b): b only if b < a
RatMin(a, b) == IF RatLE(a, b) THEN a ELSE b
\* int(x) for x >= 0
RatInt(a) == a.n \div a.d

Abs(x) == IF x < 0 THEN 0 - x ELSE x
Min(a, b) == IF a <= b THEN a ELSE b
Max(a, b) == IF a >= b THEN a ELSE b

\* ---------------------------------------------------------- frame source
\* cv2.VideoCapture: idx is the index of the next frame to decode
\* width is frame.shape[1] of the frames it decodes; displayable tells whether
\* display_frame can convert them
NoCap == [present |-> FALSE, open |-> FALSE, fps |-> 0, frames |-> 0, idx |-> 0,
          width |-> 0, displayable |-> TRUE]

\* cv2.VideoCapture(path)
VideoCapture(sel) ==
    IF sel.kind = "video"
    THEN [present |-> TRUE, open |-> TRUE, fps |-> sel.fps, frames |-> sel.frames,
          idx |-> 0, width |-> sel.width, displayable |-> sel.displayable]
    ELSE [present |-> TRUE, open |-> FALSE, fps |-> 0, frames |-> 0, idx |-> 0,
          width |-> 0, displayable |-> TRUE]

\* cap.release()
Release(cap) == [cap EXCEPT !.open = FALSE]
\* the handles a capture holds
Held(cap) == IF cap.open THEN 1 ELSE 0

\* cap.read(): success flag
ReadOk(cap) == cap.open /\ cap.idx < cap.frames
\* cap.read(): the capture afterwards
ReadCap(cap) == IF ReadOk(cap) THEN [cap EXCEPT !.idx = cap.idx + 1] ELSE cap

\* (mutant: the backend ignores the request)
Rewind_ignored(cap) == cap
\* cap.set(CAP_PROP_POS_FRAMES, 0)
Rewind(cap) == IF cap.open THEN [cap EXCEPT !.idx = 0] ELSE cap

\* (mutant: the position is taken as an offset from the current one)
SeekMsec_relative(cap, position) ==
    IF cap.open
    THEN [cap EXCEPT !.idx =
            Min(cap.idx + (position * cap.fps + (FpsScale * MsPerSec) \div 2)
                    \div (FpsScale * MsPerSec), cap.frames)]
    ELSE cap
\* cap.set(CAP_PROP_POS_MSEC, position): nearest frame, not past the end
SeekMsec(cap, position) ==
    IF cap.open
    THEN [cap EXCEPT !.idx =
            Min((position * cap.fps + (FpsScale * MsPerSec) \div 2)
                    \div (FpsScale * MsPerSec), cap.frames)]
    ELSE cap

\* cap.get(CAP_PROP_POS_MSEC) right after a successful read.  The decoder
\* backend reports either the time of the next frame (frame_number / fps)
\* or the timestamp of the frame just read; mode is fixed per build.
PosMsec(cap, mode) ==
    IF cap.fps = 0 THEN Rat(0, 1)
    ELSE IF mode = "next" THEN Rat(cap.idx * FpsScale * MsPerSec, cap.fps)
    ELSE Rat((cap.idx - 1) * FpsScale * MsPerSec, cap.fps)

\* ------------------------------------------------------------- surfaces
\* a decoded frame: its index in the stream and the part of it that is shown
Frame(i, p) == [idx |-> i, part |-> p]
\* (mutant: the right half starts one column late)
Columns_gap(p, width) ==
    IF p = "left" THEN 0 .. (width \div 2 - 1)
    ELSE IF p = "right" THEN (width \div 2 + 1) .. (width - 1)
    ELSE 0 .. (width - 1)
\* the columns of a frame of the given width that a part holds:
\* frame[:, : width // 2], frame[:, width // 2 :], or the whole frame
Columns(p, width) ==
    IF p = "left" THEN 0 .. (width \div 2 - 1)
    ELSE IF p = "right" THEN (width \div 2) .. (width - 1)
    ELSE 0 .. (width - 1)
\* what a label shows after a display_frame that failed: what it showed before
Kept == [idx |-> 0 - 1, part |-> "kept"]

\* ------------------------------------------------------------------ state
NoneVal == 0 - 1
NoneRat == Rat(0 - 1, 1)

VARIABLES
    cap1, cap2,                 \* stream handles
    timer_active,               \* QTimer.isActive()
    timer_interval,             \* ms, NoneVal until the first successful play
    is_paused, is_overlay, single_video_mode,
    fps1, frame_count1, duration1,
    fps2, frame_count2, duration2,
    duration,                   \* min(duration1, duration2), seconds*1000 as a rational
    play_enabled, pause_enabled, stop_enabled,
    slider_enabled, slider_max, slider_value, slider_down,
    toggle_enabled,
    toggle_checked,             \* mode_toggle.isChecked()
    overlay_frames,             \* overlay_label.frame1/frame2 are not None
    rendered,                   \* frame pairs the last handler drew, in order
    dialog,                     \* modal message raised by the last handler
    op,                         \* last handler and the branch it took
    alive,                      \* FALSE once an exception escaped a slot or the window closed
    pos_mode,                   \* backend's CAP_PROP_POS_MSEC convention
    seek_was_active,            \* history: timer state when the current drag began
    division, dragging,         \* overlay_label: divider ratio and drag flag
    widget_width,               \* overlay_label.width()
    image_area_width,           \* min width of the two frames scaled into the widget
    pointer,                    \* the last event or call the overlay widget got
    open_handles                \* captures opened and not yet released

vars == <<cap1, cap2, timer_active, timer_interval, is_paused, is_overlay,
          single_video_mode, fps1, frame_count1, duration1, fps2, frame_count2,
          duration2, duration, play_enabled, pause_enabled, stop_enabled,
          slider_enabled, slider_max, slider_value, slider_down, toggle_enabled,
          rendered, dialog, op, alive, pos_mode,
          seek_was_active, toggle_checked, overlay_frames,
          division, dragging, widget_width, image_area_width, pointer,
          open_handles>>

\* the fields of the overlay widget that no controller handler writes
dvars == <<division, dragging, widget_width, image_area_width, pointer>>

\* the object's fields as one record, for the handlers below
St == [cap1 |-> cap1, cap2 |-> cap2, timer_active |-> timer_active,
       timer_interval |-> timer_interval, is_paused |-> is_paused,
       is_overlay |-> is_overlay, single_video_mode |-> single_video_mode,
       fps1 |-> fps1, frame_count1 |-> frame_count1, duration1 |-> duration1,
       fps2 |-> fps2, frame_count2 |-> frame_count2, duration2 |-> duration2,
       duration |-> duration, play_enabled |-> play_enabled,
       pause_enabled |-> pause_enabled, stop_enabled |-> stop_enabled,
       slider_enabled |-> slider_enabled, slider_max |-> slider_max,
       slider_value |-> slider_value, toggle_enabled |-> toggle_enabled,
       toggle_checked |-> toggle_checked, overlay_frames |-> overlay_frames,
       rendered |-> <<>>, dialog |-> "none", op |-> "none", alive |-> alive, pos_mode |-> pos_mode,
       depth |-> 0, open_handles |-> open_handles]

\* the handler's result is evaluated once and copied field by field
Assign(s) ==
    \E r \in {s} :
       /\ cap1' = r.cap1 /\ cap2' = r.cap2
       /\ timer_active' = r.timer_active /\ timer_interval' = r.timer_interval
       /\ is_paused' = r.is_paused /\ is_overlay' = r.is_overlay
       /\ single_video_mode' = r.single_video_mode
       /\ fps1' = r.fps1 /\ frame_count1' = r.frame_count1 /\ duration1' = r.duration1
       /\ fps2' = r.fps2 /\ frame_count2' = r.frame_count2 /\ duration2' = r.duration2
       /\ duration' = r.duration
       /\ play_enabled' = r.play_enabled /\ pause_enabled' = r.pause_enabled
       /\ stop_enabled' = r.stop_enabled
       /\ slider_enabled' = r.slider_enabled /\ slider_max' = r.slider_max
       /\ slider_value' = r.slider_value
       /\ toggle_enabled' = r.toggle_enabled
       /\ toggle_checked' = r.toggle_checked
       /\ overlay_frames' = r.overlay_frames
       /\ rendered' = r.rendered
       /\ dialog' = r.dialog /\ op' = r.op /\ alive' = r.alive
       /\ pos_mode' = r.pos_mode
       /\ open_handles' = r.open_handles
       /\ UNCHANGED dvars

Init ==
    /\ cap1 = NoCap /\ cap2 = NoCap
    /\ timer_active = FALSE /\ timer_interval = NoneVal
    /\ is_paused = FALSE /\ is_overlay = FALSE /\ single_video_mode = FALSE
    /\ fps1 = NoneVal /\ frame_count1 = NoneVal /\ duration1 = NoneRat
    /\ fps2 = NoneVal /\ frame_count2 = NoneVal /\ duration2 = NoneRat
    /\ duration = NoneRat
    /\ play_enabled = FALSE /\ pause_enabled = FALSE /\ stop_enabled = FALSE
    /\ slider_enabled = FALSE /\ slider_max = 99 /\ slider_value = 0
    /\ slider_down = FALSE
    /\ toggle_enabled = FALSE
    /\ toggle_checked = FALSE
    /\ overlay_frames = FALSE
    /\ rendered = <<>>
    /\ dialog = "none" /\ op = "init" /\ alive = TRUE
    /\ pos_mode \in {"next", "last"}
    /\ seek_was_active = FALSE
    /\ division = Rat(1, 2) /\ dragging = FALSE
    /\ widget_width = MinimumWidth /\ image_area_width = MinimumWidth
    /\ pointer = [ev |-> "none", button |-> "none", x |-> 0]
    /\ open_handles = 0

\* ------------------------------------------------------------- handlers
\* QSlider.setValue: the value is bounded to the slider's range
SetValue(s, v) == [s EXCEPT !.slider_value = Max(0, Min(v, s.slider_max))]

\* the is_overlay branch shared by the three readers: the pair goes to the
\* compositor (overlay_label.set_frames) or to the two labels (display_frame
\* twice); the surface is recorded with the pair
\* display_frame catches what the conversion raises, shows a critical
\* dialog and returns; the label keeps the pixmap it had
Present(s, f1, f2) ==
    IF s.is_overlay
    THEN [s EXCEPT !.rendered = Append(s.rendered,
                      [overlay |-> TRUE, left |-> f1, right |-> f2]),
                   !.overlay_frames = TRUE]
    ELSE LET ok1 == s.cap1.displayable
             ok2 == IF s.single_video_mode THEN s.cap1.displayable
                    ELSE s.cap2.displayable
         IN  [s EXCEPT !.rendered =
                          IF ok1 \/ ok2
                          THEN Append(s.rendered,
                                 [overlay |-> FALSE,
                                  left |-> IF ok1 THEN f1 ELSE Kept,
                                  right |-> IF ok2 THEN f2 ELSE Kept])
                          ELSE s.rendered,
                       !.dialog = IF ok1 /\ ok2 THEN s.dialog ELSE "critical"]

\* the handler's result gets its name unless an exception is on its way up
Named(s, name) == IF s.alive THEN [s EXCEPT !.op = name] ELSE s

RECURSIVE display_initial_frames(_), stop_videos(_)

\* the width check calls stop_videos, which calls display_initial_frames;
\* depth counts the nested calls up to the interpreter's limit
display_initial_frames(s) ==
    IF ~s.cap1.present THEN s
    ELSE IF ~ReadOk(s.cap1) THEN s
    ELSE LET i1 == s.cap1.idx
             s1 == [s EXCEPT !.cap1 = ReadCap(s.cap1)]
         IN  IF s1.single_video_mode
             THEN IF s1.cap1.width < 2
                  THEN IF s1.depth >= RecursionLimit
                       THEN [s1 EXCEPT !.dialog = "critical", !.alive = FALSE,
                                       !.op = "recursion_error"]
                       ELSE stop_videos([s1 EXCEPT !.dialog = "critical",
                                                   !.depth = s1.depth + 1])
                  ELSE
                  LET s2 == Present(s1, Frame(i1, "left"), Frame(i1, "right"))
                  IN  [s2 EXCEPT !.cap1 = Rewind(s2.cap1)]
             ELSE IF ~ReadOk(s1.cap2) THEN s1
             ELSE LET i2 == s1.cap2.idx
                      s2 == [s1 EXCEPT !.cap2 = ReadCap(s1.cap2)]
                      s3 == Present(s2, Frame(i1, "full1"), Frame(i2, "full2"))
                  IN  [s3 EXCEPT !.cap1 = Rewind(s3.cap1), !.cap2 = Rewind(s3.cap2)]

\* (mutant: the timer is left running)
stop_videos_timerRuns(s) ==
    IF ~s.cap1.present THEN s
    ELSE LET s1 == [s EXCEPT !.is_paused = FALSE,
                             !.cap1 = Rewind(s.cap1),
                             !.cap2 = IF ~s.single_video_mode /\ s.cap2.present
                                      THEN Rewind(s.cap2) ELSE s.cap2]
             s2 == display_initial_frames(s1)
             s3 == SetValue(s2, 0)
         IN  [s3 EXCEPT !.play_enabled = TRUE, !.pause_enabled = FALSE,
                        !.stop_enabled = FALSE]

\* (mutant: the first frames are not displayed again)
stop_videos_noDisplay(s) ==
    IF ~s.cap1.present THEN s
    ELSE LET s1 == [s EXCEPT !.timer_active = FALSE, !.is_paused = FALSE,
                             !.cap1 = Rewind(s.cap1),
                             !.cap2 = IF ~s.single_video_mode /\ s.cap2.present
                                      THEN Rewind(s.cap2) ELSE s.cap2]
             s3 == SetValue(s1, 0)
         IN  [s3 EXCEPT !.play_enabled = TRUE, !.pause_enabled = FALSE,
                        !.stop_enabled = FALSE]

stop_videos(s) ==
    IF ~s.cap1.present THEN s
    ELSE LET s1 == [s EXCEPT !.timer_active = FALSE, !.is_paused = FALSE,
                             !.cap1 = Rewind(s.cap1),
                             !.cap2 = IF ~s.single_video_mode /\ s.cap2.present
                                      THEN Rewind(s.cap2) ELSE s.cap2]
             s2 == display_initial_frames(s1)
             s3 == SetValue(s2, 0)
         IN  IF ~s2.alive THEN s2
             ELSE [s3 EXCEPT !.play_enabled = TRUE, !.pause_enabled = FALSE,
                             !.stop_enabled = FALSE]

\* (mutant: only the first capture is released)
ReleaseCaptures_firstOnly(s) ==
    [s EXCEPT !.cap1 = Release(s.cap1),
              !.open_handles = s.open_handles - Held(s.cap1)]
\* if self.cap1: self.cap1.release(); if self.cap2: self.cap2.release()
ReleaseCaptures(s) ==
    [s EXCEPT !.cap1 = Release(s.cap1), !.cap2 = Release(s.cap2),
              !.open_handles = s.open_handles - Held(s.cap1) - Held(s.cap2)]

\* the window closes when the event is accepted: no handler runs afterwards
closeEvent(s) == [ReleaseCaptures(s) EXCEPT !.alive = FALSE, !.op = "closed"]

\* frame_count / fps if fps else 0, kept as seconds * 1000
Duration(frame_count, fps) ==
    IF fps = 0 THEN Rat(0, 1) ELSE Rat(frame_count * FpsScale * MsPerSec, fps)

load_videos(s, sel1, sel2) ==
    IF sel1.kind = "none"
    THEN [s EXCEPT !.dialog = "warning", !.op = "load_not_selected"]
    ELSE
    LET \* previous captures are released, then both fields are reassigned
        s0 == ReleaseCaptures(s)
        new1 == VideoCapture(sel1)
        new2 == IF sel2.kind = "none" THEN NoCap ELSE VideoCapture(sel2)
        s1 == [s0 EXCEPT !.cap1 = new1, !.cap2 = new2,
                         !.open_handles = s0.open_handles + Held(new1) + Held(new2)]
        s2 == [s1 EXCEPT !.single_video_mode = ~s1.cap2.present]
    IN  IF ~s2.cap1.open
        THEN [s2 EXCEPT !.dialog = "critical", !.op = "load_open1_failed"]
        ELSE IF ~s2.single_video_mode /\ ~s2.cap2.open
        THEN [s2 EXCEPT !.dialog = "critical", !.op = "load_open2_failed"]
        ELSE
        LET f1 == s2.cap1.fps
            n1 == s2.cap1.frames
            d1 == Duration(n1, f1)
            f2 == IF s2.single_video_mode THEN f1 ELSE s2.cap2.fps
            n2 == IF s2.single_video_mode THEN n1 ELSE s2.cap2.frames
            d2 == IF s2.single_video_mode THEN d1 ELSE Duration(n2, f2)
            dur == RatMin(d1, d2)
            s3 == [s2 EXCEPT !.fps1 = f1, !.frame_count1 = n1, !.duration1 = d1,
                             !.fps2 = f2, !.frame_count2 = n2, !.duration2 = d2,
                             !.play_enabled = TRUE, !.pause_enabled = FALSE,
                             !.stop_enabled = FALSE, !.slider_enabled = TRUE,
                             !.toggle_enabled = TRUE,
                             !.duration = dur,
                             !.slider_max = RatInt(dur)]
            s4 == SetValue(s3, 0)
            s5 == [s4 EXCEPT !.cap1 = Rewind(s4.cap1),
                             !.cap2 = IF ~s4.single_video_mode
                                      THEN Rewind(s4.cap2) ELSE s4.cap2]
            s6 == display_initial_frames(s5)
        IN  Named(s6, "load_ok")

\* int(1000 / combined_fps)
TimerInterval(combined_fps) == (FpsScale * MsPerSec) \div combined_fps

\* (mutant: the buttons are switched before the rate is validated)
play_videos_buttonsFirst(s) ==
    IF ~s.cap1.present
    THEN [s EXCEPT !.dialog = "warning", !.op = "play_no_video"]
    ELSE IF ~s.single_video_mode /\ ~s.cap2.present
    THEN [s EXCEPT !.dialog = "warning", !.op = "play_no_second"]
    ELSE LET combined_fps == IF s.single_video_mode THEN s.fps1
                             ELSE Max(s.fps1, s.fps2)
             s1 == [s EXCEPT !.play_enabled = FALSE, !.pause_enabled = TRUE,
                             !.stop_enabled = TRUE]
         IN  IF combined_fps <= 0
             THEN [s1 EXCEPT !.dialog = "critical", !.op = "play_invalid_fps"]
             ELSE [s1 EXCEPT !.timer_interval = TimerInterval(combined_fps),
                             !.timer_active = TRUE,
                             !.is_paused = FALSE,
                             !.op = "play_ok"]

\* (mutant: the branch goes on to switch the buttons)
NoVideoWarning_switches(s) ==
    [s EXCEPT !.dialog = "warning", !.op = "play_no_video",
              !.play_enabled = FALSE, !.pause_enabled = TRUE, !.stop_enabled = TRUE]
\* "Please load at least one video first." and return
NoVideoWarning(s) == [s EXCEPT !.dialog = "warning", !.op = "play_no_video"]

play_videos(s) ==
    IF ~s.cap1.present
    THEN NoVideoWarning(s)
    ELSE IF ~s.single_video_mode /\ ~s.cap2.present
    THEN [s EXCEPT !.dialog = "warning", !.op = "play_no_second"]
    ELSE LET combined_fps == IF s.single_video_mode THEN s.fps1
                             ELSE Max(s.fps1, s.fps2)
         IN  IF combined_fps <= 0
             THEN [s EXCEPT !.dialog = "critical", !.op = "play_invalid_fps"]
             ELSE [s EXCEPT !.timer_interval = TimerInterval(combined_fps),
                            !.timer_active = TRUE,
                            !.is_paused = FALSE,
                            !.play_enabled = FALSE, !.pause_enabled = TRUE,
                            !.stop_enabled = TRUE,
                            !.op = "play_ok"]

\* (mutant: pausing rewinds the streams)
pause_videos_rewinds(s) ==
    IF s.timer_active
    THEN [s EXCEPT !.timer_active = FALSE, !.is_paused = TRUE,
                   !.cap1 = Rewind(s.cap1), !.cap2 = Rewind(s.cap2),
                   !.play_enabled = TRUE, !.pause_enabled = FALSE,
                   !.op = "pause_ok"]
    ELSE [s EXCEPT !.op = "pause_idle"]

pause_videos(s) ==
    IF s.timer_active
    THEN [s EXCEPT !.timer_active = FALSE, !.is_paused = TRUE,
                   !.play_enabled = TRUE, !.pause_enabled = FALSE,
                   !.op = "pause_ok"]
    ELSE [s EXCEPT !.op = "pause_idle"]

\* (mutant: playback ends only when both videos have ended)
VideoEnded_both(s, pos1, pos2) ==
    RatGE(pos1, s.duration1) /\ RatGE(pos2, s.duration2)
\* "Check if any video has ended"
VideoEnded(s, pos1, pos2) ==
    RatGE(pos1, s.duration1) \/ RatGE(pos2, s.duration2)

\* (mutant: the slider's signal reaches seek_videos, which repositions and
\* reads the streams)
SetValueBlocked_seeks(s, v) ==
    LET s1 == SetValue(s, v)
    IN  [s1 EXCEPT !.cap1 = ReadCap(SeekMsec(s1.cap1, s1.slider_value)),
                   !.cap2 = IF ~s1.single_video_mode /\ s1.cap2.present
                            THEN ReadCap(SeekMsec(s1.cap2, s1.slider_value))
                            ELSE s1.cap2]
\* blockSignals(True); setValue(v); blockSignals(False): no slot runs
SetValueBlocked(s, v) == SetValue(s, v)

update_frames(s) ==
    IF s.single_video_mode
    THEN IF ~ReadOk(s.cap1)
         THEN [stop_videos(s) EXCEPT !.op = "tick_read_failed"]
         ELSE LET i1 == s.cap1.idx
                  s1 == [s EXCEPT !.cap1 = ReadCap(s.cap1)]
                  s2 == Present(s1, Frame(i1, "left"), Frame(i1, "right"))
                  pos1 == PosMsec(s2.cap1, s2.pos_mode)
                  s3 == SetValueBlocked(s2, RatInt(pos1))
              IN  IF RatGE(pos1, s3.duration1)
                  THEN [stop_videos(s3) EXCEPT !.op = "tick_ended"]
                  ELSE [s3 EXCEPT !.op = "tick_ok"]
    ELSE LET ret1 == ReadOk(s.cap1)
             ret2 == ReadOk(s.cap2)
             i1 == s.cap1.idx
             i2 == s.cap2.idx
             s1 == [s EXCEPT !.cap1 = ReadCap(s.cap1), !.cap2 = ReadCap(s.cap2)]
         IN  IF ret1 /\ ret2
             THEN LET s2 == Present(s1, Frame(i1, "full1"), Frame(i2, "full2"))
                      pos1 == PosMsec(s2.cap1, s2.pos_mode)
                      pos2 == PosMsec(s2.cap2, s2.pos_mode)
                      current_pos == RatMin(pos1, pos2)
                      s3 == SetValueBlocked(s2, RatInt(current_pos))
                  IN  IF VideoEnded(s3, pos1, pos2)
                      THEN [stop_videos(s3) EXCEPT !.op = "tick_ended"]
                      ELSE [s3 EXCEPT !.op = "tick_ok"]
             ELSE [stop_videos(s1) EXCEPT !.op = "tick_read_failed"]

\* position is the slider value the drag has reached
seek_videos(s, position) ==
    IF ~s.cap1.present THEN [s EXCEPT !.op = "seek_no_video"]
    ELSE
    LET s1 == [s EXCEPT !.cap1 = SeekMsec(s.cap1, position),
                        !.cap2 = IF ~s.single_video_mode /\ s.cap2.present
                                 THEN SeekMsec(s.cap2, position) ELSE s.cap2]
        ret1 == ReadOk(s1.cap1)
        i1 == s1.cap1.idx
        s2 == [s1 EXCEPT !.cap1 = ReadCap(s1.cap1)]
    IN  IF s2.single_video_mode
        THEN IF ret1
             THEN [Present(s2, Frame(i1, "left"), Frame(i1, "right"))
                     EXCEPT !.op = "seek_shown"]
             ELSE [s2 EXCEPT !.op = "seek_read_failed"]
        ELSE LET ret2 == ReadOk(s2.cap2)
                 i2 == s2.cap2.idx
                 s3 == [s2 EXCEPT !.cap2 = ReadCap(s2.cap2)]
             IN  IF ret1 /\ ret2
                 THEN [Present(s3, Frame(i1, "full1"), Frame(i2, "full2"))
                         EXCEPT !.op = "seek_shown"]
                 ELSE [s3 EXCEPT !.op = "seek_read_failed"]

\* (mutant: the flag is set but the timer is left running)
start_seek_timerRuns(s) ==
    IF s.timer_active
    THEN [s EXCEPT !.is_paused = TRUE, !.op = "start_seek_paused"]
    ELSE [s EXCEPT !.op = "start_seek_idle"]

start_seek(s) ==
    IF s.timer_active
    THEN [s EXCEPT !.timer_active = FALSE, !.is_paused = TRUE, !.op = "start_seek_paused"]
    ELSE [s EXCEPT !.op = "start_seek_idle"]

\* timer_interval is None until play_videos has succeeded once; None > 0
\* raises TypeError, which nothing catches
end_seek(s) ==
    IF s.is_paused THEN [s EXCEPT !.op = "end_seek_paused"]
    ELSE IF s.timer_interval = NoneVal
    THEN [s EXCEPT !.alive = FALSE, !.op = "end_seek_raised"]
    ELSE IF s.timer_interval > 0
    THEN [s EXCEPT !.timer_active = TRUE, !.op = "end_seek_resumed"]
    ELSE [s EXCEPT !.op = "end_seek_no_interval"]

\* mode_toggle.setChecked(False): a change of the check state emits
\* stateChanged(Unchecked), which runs the else branch of toggle_mode and its
\* display_initial_frames before setChecked returns
\* (mutant: the check box is not reverted)
setChecked_False_ignored(s) == s
setChecked_False(s) ==
    IF s.toggle_checked
    THEN display_initial_frames([s EXCEPT !.toggle_checked = FALSE,
                                          !.is_overlay = FALSE])
    ELSE s

\* checked is the state argument of stateChanged (state == Checked)
toggle_mode(s, checked) ==
    IF checked /\ ~s.cap1.present
    THEN [setChecked_False([s EXCEPT !.dialog = "warning"])
            EXCEPT !.op = "toggle_rejected"]
    ELSE Named(display_initial_frames([s EXCEPT !.is_overlay = checked]),
               IF checked THEN "toggle_overlay" ELSE "toggle_side_by_side")

\* ---------------------------------------------------------------- actions
\* a button can be clicked only while it is enabled and the slider is not held
CanClick == alive /\ ~slider_down

\* the pairs of files tried: every file alone, and the 10.0 s and the 8.0 s
\* clip each as first file beside every second file
Load ==
    /\ CanClick
    /\ \E sel1 \in Selections, sel2 \in Selections :
          /\ sel1.kind = "none" => sel2.kind = "none"
          /\ sel2.kind # "none" => (sel1.kind = "video" /\ sel1.fps = 10)
          /\ Assign(load_videos(St, sel1, sel2))
    /\ UNCHANGED <<slider_down, seek_was_active>>

Play ==
    /\ CanClick /\ play_enabled
    /\ Assign(play_videos(St))
    /\ UNCHANGED <<slider_down, seek_was_active>>

Pause ==
    /\ CanClick /\ pause_enabled
    /\ Assign(pause_videos(St))
    /\ UNCHANGED <<slider_down, seek_was_active>>

Stop ==
    /\ CanClick /\ stop_enabled
    /\ Assign(stop_videos([St EXCEPT !.op = "stop"]))
    /\ UNCHANGED <<slider_down, seek_was_active>>

\* QTimer timeout
Tick ==
    /\ alive /\ timer_active
    /\ Assign(update_frames(St))
    /\ UNCHANGED <<slider_down, seek_was_active>>

\* sliderPressed
SeekPress ==
    /\ CanClick /\ slider_enabled
    /\ Assign(start_seek(St))
    /\ slider_down' = TRUE
    /\ seek_was_active' = timer_active

\* positions a drag can report: both ends and the middle of the range
SeekTargets == {0, slider_max \div 2, slider_max}

\* sliderMoved(position): the slider already holds the new value
SeekMove ==
    /\ alive /\ slider_down
    /\ \E position \in SeekTargets :
          Assign(seek_videos([St EXCEPT !.slider_value = position], position))
    /\ UNCHANGED <<slider_down, seek_was_active>>

\* sliderReleased
SeekRelease ==
    /\ alive /\ slider_down
    /\ Assign(end_seek(St))
    /\ slider_down' = FALSE
    /\ seek_was_active' = FALSE

\* stateChanged of the mode_toggle check box
Toggle ==
    /\ CanClick /\ toggle_enabled
    /\ Assign(toggle_mode([St EXCEPT !.toggle_checked = ~toggle_checked],
                           ~toggle_checked))
    /\ UNCHANGED <<slider_down, seek_was_active>>

\* ------------------------------------------------- slots called directly
\* every slot is a public method; a caller that does not go through the
\* widgets is not held back by their enabled state
StopOps == {"stop", "stop_after_load", "stop_again"}

\* stop_videos(); op also records a stop that directly follows a successful
\* load or another stop
StopRequest ==
    /\ CanClick
    /\ Assign(stop_videos([St EXCEPT !.op =
                 IF op = "load_ok" THEN "stop_after_load"
                 ELSE IF op \in StopOps THEN "stop_again"
                 ELSE "stop"]))
    /\ UNCHANGED <<slider_down, seek_was_active>>

\* mode_toggle.setChecked(not isChecked()) while the check box is disabled:
\* stateChanged is emitted all the same
ToggleRequest ==
    /\ CanClick /\ ~toggle_enabled
    /\ Assign(toggle_mode([St EXCEPT !.toggle_checked = ~toggle_checked],
                           ~toggle_checked))
    /\ UNCHANGED <<slider_down, seek_was_active>>

\* play_videos() while the Play button is disabled
PlayRequest ==
    /\ CanClick /\ ~play_enabled
    /\ Assign(play_videos(St))
    /\ UNCHANGED <<slider_down, seek_was_active>>

\* ------------------------------------------------ frames and shutdown
\* loads of the unusual clips, alone or beside an ordinary one
LoadFrames ==
    /\ CanClick
    /\ \E sel1 \in {AsSelection(v) : v \in FrameVideos \cup {PlainVideo}} \cup {Unopenable},
          sel2 \in {NotSelected, AsSelection(PlainVideo), Unopenable} :
          Assign(load_videos(St, sel1, sel2))
    /\ UNCHANGED <<slider_down, seek_was_active>>

\* the window is closed
Close ==
    /\ alive
    /\ Assign(closeEvent(St))
    /\ UNCHANGED <<slider_down, seek_was_active>>

\* ---------------------------------------------- overlay widget (divider)
\* the controller's variables, which no event of the overlay widget writes
cvars == <<cap1, cap2, timer_active, timer_interval, is_paused, is_overlay,
           single_video_mode, fps1, frame_count1, duration1, fps2, frame_count2,
           duration2, duration, play_enabled, pause_enabled, stop_enabled,
           slider_enabled, slider_max, slider_value, slider_down, toggle_enabled,
           toggle_checked, overlay_frames, rendered, dialog, op, alive, pos_mode,
           seek_was_active, open_handles>>

\* (widget width, image area width) the window can be resized to: the image
\* area fills the widget, or is narrower because the frames are tall
Geometries == {<<400, 400>>, <<640, 640>>, <<400, 90>>}
\* event.position().x(): inside the widget, and far outside it while the
\* pointer is grabbed by a drag
PointerXs == {0 - 1000, 155, 200, 205, 320, 2000}
Buttons == {"left", "right"}

\* (widget_width - image_area_width) // 2
image_area_x == (widget_width - image_area_width) \div 2
\* (mutant: the ratio is applied to the width of the widget)
division_x_widget == image_area_x + (division.n * widget_width) \div division.d
\* image_area_x + int(self.division * image_area_width)
division_x == image_area_x + (division.n * image_area_width) \div division.d

\* int(0.01 * image_area_width) + image_area_x
LowerStop == image_area_width \div 100 + image_area_x
\* int(0.99 * image_area_width) + image_area_x
UpperStop == (99 * image_area_width) \div 100 + image_area_x

\* load_videos with one of two files picked and the second dialog cancelled:
\* a clip with frames, or the damaged file that yields none
LoadSingle ==
    /\ CanClick
    /\ \E sel1 \in {s \in Openable : s.frames \in {0, 5}} :
          Assign(load_videos(St, sel1, NotSelected))
    /\ UNCHANGED <<slider_down, seek_was_active>>

\* the window is resized, or frames of another shape are scaled into it
Resize ==
    /\ alive
    /\ \E g \in Geometries :
          /\ <<widget_width, image_area_width>> # g
          /\ widget_width' = g[1] /\ image_area_width' = g[2]
    /\ UNCHANGED <<division, dragging, pointer>>
    /\ UNCHANGED cvars

\* mousePressEvent: the overlay widget gets events only while it is the
\* current widget of the stacked layout
DividerPress ==
    /\ alive /\ is_overlay
    /\ \E button \in Buttons, x \in PointerXs :
          /\ dragging' = IF button = "left"
                         THEN IF ~overlay_frames THEN dragging
                              ELSE Abs(x - division_x) <= handle_width
                         ELSE FALSE
          /\ pointer' = [ev |-> "press", button |-> button, x |-> x]
    /\ UNCHANGED <<division, widget_width, image_area_width>>
    /\ UNCHANGED cvars

\* mouseMoveEvent: the dragging branch stores a ratio, the hover branch only
\* changes the cursor
DividerMove ==
    /\ alive /\ is_overlay
    /\ \E x \in PointerXs :
          /\ division' = IF dragging /\ overlay_frames
                         THEN Rat(Max(LowerStop, Min(x, UpperStop)) - image_area_x,
                                  image_area_width)
                         ELSE division
          /\ pointer' = [ev |-> "move", button |-> "none", x |-> x]
    /\ UNCHANGED <<dragging, widget_width, image_area_width>>
    /\ UNCHANGED cvars

\* (mutant: only the release of the left button ends the drag)
DividerRelease_leftOnly ==
    /\ alive /\ is_overlay
    /\ \E button \in Buttons :
          /\ dragging' = IF button = "left" THEN FALSE ELSE dragging
          /\ pointer' = [ev |-> "release", button |-> button, x |-> 0]
    /\ UNCHANGED <<division, widget_width, image_area_width>>
    /\ UNCHANGED cvars

\* mouseReleaseEvent: both branches clear the flag
DividerRelease ==
    /\ alive /\ is_overlay
    /\ \E button \in Buttons :
          /\ dragging' = FALSE
          /\ pointer' = [ev |-> "release", button |-> button, x |-> 0]
    /\ UNCHANGED <<division, widget_width, image_area_width>>
    /\ UNCHANGED cvars

\* ratios a caller can hand to set_division: both ends, a third, and one
\* outside [0, 1], which the call stores as it is
Ratios == {Rat(0, 1), Rat(1, 3), Rat(1, 1), Rat(3, 2)}

\* set_division(division), called directly
SetDivision ==
    /\ alive
    /\ \E r \in Ratios :
          division' = r
    /\ pointer' = [ev |-> "set_division", button |-> "none", x |-> 0]
    /\ UNCHANGED <<dragging, widget_width, image_area_width>>
    /\ UNCHANGED cvars

Next ==
    \/ Load
    \/ Play
    \/ Pause
    \/ Stop
    \/ Tick
    \/ SeekPress
    \/ SeekMove
    \/ SeekRelease
    \/ Toggle

Spec == Init /\ [][Next]_vars

\* the same program with its slots also called directly
NextSlots ==
    \/ Load
    \/ Play
    \/ Pause
    \/ Stop
    \/ Tick
    \/ SeekPress
    \/ SeekMove
    \/ SeekRelease
    \/ Toggle
    \/ StopRequest
    \/ ToggleRequest
    \/ PlayRequest

SpecSlots == Init /\ [][NextSlots]_vars

\* loading, switching the view and working the divider of the overlay
NextDivider ==
    \/ LoadSingle
    \/ Toggle
    \/ Resize
    \/ DividerPress
    \/ DividerMove
    \/ DividerRelease
    \/ SetDivision

SpecDivider == Init /\ [][NextDivider]_vars

\* playback of the unusual clips, and closing the window
NextFrames ==
    \/ LoadFrames
    \/ Play
    \/ Pause
    \/ Stop
    \/ Tick
    \/ SeekPress
    \/ SeekMove
    \/ SeekRelease
    \/ Toggle
    \/ Close

SpecFrames == Init /\ [][NextFrames]_vars

\* ----------------------------------------------------------- vocabulary
Dual == ~single_video_mode
\* controller state Stopped: scheduler idle, not paused, position and indicator 0
AtStart == cap1.idx = 0 /\ (Dual => cap2.idx = 0) /\ slider_value = 0
Stopped == ~timer_active /\ ~is_paused /\ AtStart
TickOps == {"tick_ok", "tick_ended", "tick_read_failed"}
LoadFailedOps == {"load_open1_failed", "load_open2_failed"}
Session == <<cap1, cap2, single_video_mode, fps1, frame_count1, duration1,
             fps2, frame_count2, duration2, duration, slider_max,
             timer_active, timer_interval, is_paused>>
ReleaseStep == slider_down /\ ~slider_down'
\* the pair made of frame 0 of each logical stream, on the current surface
FirstPair ==
    IF single_video_mode
    THEN [overlay |-> is_overlay, left |-> Frame(0, "left"), right |-> Frame(0, "right")]
    ELSE [overlay |-> is_overlay, left |-> Frame(0, "full1"), right |-> Frame(0, "full2")]
HasFirstPair ==
    /\ cap1.open /\ cap1.frames > 0
    /\ Dual => (cap2.open /\ cap2.frames > 0)

\* ------------------------------------------------------------------ C1
\* C1: if the scheduler was active when the seek indicator was pressed, then
\* the release that ends the drag leaves the scheduler active again, with the
\* tick interval unchanged.
C1_ResumeAfterSeek ==
    [][(ReleaseStep /\ seek_was_active)
          => (timer_active' /\ timer_interval' = timer_interval)]_vars

\* ------------------------------------------------------------------ C2
\* C2: if the scheduler was idle when the seek indicator was pressed, the
\* release leaves it idle: a press/release pair never starts playback.
C2_SeekNeverStartsPlayback ==
    [][(ReleaseStep /\ ~seek_was_active) => ~timer_active']_vars

\* ------------------------------------------------------------------ C3
\* C3: a Load that fails to open the first or the second file, issued on a
\* session whose handles are open, leaves handles, mode, metadata, seek range
\* and scheduler state exactly as they were.
C3_FailedLoadKeepsSession ==
    [][(cap1.open /\ op' \in LoadFailedOps) => Session' = Session]_vars

\* ------------------------------------------------------------------ C4
\* C4: in Dual mode the two streams' positions (time of the next frame) never
\* differ by more than one frame period (the longer of the two periods).
\* Stated for the states that playback itself produces: after a tick that
\* showed a frame of each of two streams with valid rates.
C4_TimeAligned ==
    (op = "tick_ok" /\ Dual /\ cap1.open /\ cap2.open /\ cap1.fps > 0 /\ cap2.fps > 0
          /\ cap1.frames > 0 /\ cap2.frames > 0)
        => Abs(cap1.idx * cap2.fps - cap2.idx * cap1.fps) <= Max(cap1.fps, cap2.fps)

\* ------------------------------------------------------------------ C5
\* C5: after a successful Load the controller is Stopped: scheduler idle, both
\* stream positions 0, seek indicator 0.  Stated for loads of streams that
\* have a first frame.
C5_LoadEndsStopped ==
    (op = "load_ok" /\ HasFirstPair) => (~timer_active /\ AtStart)

\* ------------------------------------------------------------------ C6
\* C6: after a successful Load the seek range ends at the whole milliseconds of
\* min(duration_a, duration_b), duration being frame_count / frame_rate (0 for
\* rate 0); in SingleSplit both logical streams carry the one stream's
\* metadata; the 10.0 s and 8.0 s clips give the range [0, 8000].
StreamB == IF single_video_mode THEN cap1 ELSE cap2
\* m whole milliseconds do not exceed the duration of the stream behind cap
WithinDuration(m, cap) ==
    IF cap.fps = 0 THEN m = 0 ELSE m * cap.fps <= cap.frames * FpsScale * MsPerSec
C6_SeekRangeIsMinDuration ==
    op = "load_ok" =>
        /\ WithinDuration(slider_max, cap1) /\ WithinDuration(slider_max, StreamB)
        /\ ~WithinDuration(slider_max + 1, cap1) \/ ~WithinDuration(slider_max + 1, StreamB)
        /\ duration.n = slider_max * duration.d + (duration.n % duration.d)
        /\ fps1 = cap1.fps /\ frame_count1 = cap1.frames
        /\ fps2 = StreamB.fps /\ frame_count2 = StreamB.frames
        /\ single_video_mode => duration2 = duration1
        /\ (Dual /\ cap1.fps = 10 /\ cap1.frames = 5 /\ cap2.fps = 10 /\ cap2.frames = 4)
              => slider_max = 8000
C6_Witness ==
    /\ op = "load_ok" /\ Dual /\ slider_max = 8000
    /\ cap1.frames = 5 /\ cap2.frames = 4

\* ------------------------------------------------------------------ C7
\* C7: Play with a non-positive effective frame rate reports an error and
\* changes nothing: scheduler, tick interval, is_paused, stream positions and
\* button enablement are as before.
C7_InvalidFpsPlayChangesNothing ==
    [][op' = "play_invalid_fps"
          => /\ dialog' = "critical"
             /\ UNCHANGED <<timer_active, timer_interval, is_paused, cap1, cap2,
                            play_enabled, pause_enabled, stop_enabled,
                            slider_value, is_overlay>>]_vars
C7_Witness ==
    op = "play_invalid_fps" /\ ~timer_active /\ dialog = "critical"

\* ------------------------------------------------------------------ C8
\* C8: a Tick on which a read fails ends Stopped in that tick, presents no
\* frame of the failed pair and re-displays the first frame pair.
C8_ReadFailureStops ==
    op = "tick_read_failed" =>
        /\ Stopped
        /\ rendered = IF HasFirstPair THEN <<FirstPair>> ELSE <<>>

\* ------------------------------------------------------------------ C9
\* C9: on a Tick whose reads both succeed, if current_pos = min(pos_a, pos_b)
\* has reached primary_duration (in ms) the controller is Stopped after the
\* tick; the 10.0 s / 8.0 s pair stops at 8000 ms with frames of stream 1 left.
CurrentPos ==
    IF single_video_mode THEN PosMsec(ReadCap(cap1), pos_mode)
    ELSE LET p1 == PosMsec(ReadCap(cap1), pos_mode)
             p2 == PosMsec(ReadCap(cap2), pos_mode)
         IN  IF RatLE(p1, p2) THEN p1 ELSE p2
C9_AutoStopAtPrimaryDuration ==
    [][(op' \in {"tick_ok", "tick_ended"} /\ RatGE(CurrentPos, duration))
          => (op' = "tick_ended" /\ Stopped')]_vars
\* the tick that read frame 3 of both clips (position 8000 ms) stopped, with
\* frame 4 of the 10.0 s clip never read
C9_Witness ==
    /\ op = "tick_ended" /\ Dual /\ Stopped
    /\ cap1.frames = 5 /\ cap2.frames = 4 /\ cap1.fps = 10 /\ cap2.fps = 10
    /\ rendered[1].left = Frame(3, "full1")

\* ------------------------------------------------------------------ C10
\* C10: a tick leaves the scheduler running only if it read one more frame of
\* every stream, and never more than frame_count of them: after N successful
\* ticks from position 0 the next tick stops playback, whether or not
\* current_pos has reached the duration.
C10_PlaybackTerminates ==
    [][(timer_active /\ op' \in TickOps /\ timer_active')
          => /\ op' = "tick_ok"
             /\ cap1'.idx = cap1.idx + 1
             /\ cap1'.idx <= frame_count1
             /\ Dual => (cap2'.idx = cap2.idx + 1 /\ cap2'.idx <= frame_count2)]_vars
\* all N = 5 frames have been shown by ticks, the reported position is still
\* short of the duration, and the scheduler is about to fire once more
C10_Witness ==
    /\ op = "tick_ok" /\ timer_active
    /\ single_video_mode /\ frame_count1 = 5 /\ cap1.idx = 5
    /\ ~RatGE(PosMsec(cap1, pos_mode), duration1)

\* ------------------------------------------------------------------ C11
\* C11: after the Stop button the controller is Stopped (scheduler idle,
\* is_paused false, both stream positions 0, seek indicator 0) and the initial
\* frame pair is what was displayed.
C11_StopEndsStopped ==
    op = "stop" => (Stopped /\ rendered = <<FirstPair>>)

\* ------------------------------------------------------------------ C12
\* every variable of the controller but op
ExceptOp == <<cap1, cap2, timer_active, timer_interval, is_paused, is_overlay,
              single_video_mode, fps1, frame_count1, duration1, fps2,
              frame_count2, duration2, duration, play_enabled, pause_enabled,
              stop_enabled, slider_enabled, slider_max, slider_value,
              slider_down, toggle_enabled, toggle_checked, overlay_frames,
              rendered, dialog, alive>>
\* C12: a stop that directly follows a stop leaves the state as the first stop
\* left it: positions, scheduler, indicator, displayed pair and button
\* enablement are unchanged, and a Stopped controller stays Stopped.
C12_StopIdempotent ==
    [][op' = "stop_again"
          => /\ UNCHANGED ExceptOp
             /\ Stopped => Stopped'
             /\ ~timer_active' /\ slider_value' = 0]_vars
\* a second stop has run on a Stopped controller that shows the first pair
C12_Witness ==
    op = "stop_again" /\ Stopped /\ HasFirstPair /\ rendered = <<FirstPair>>

\* ------------------------------------------------------------------ C13
\* C13: a stop that directly follows a successful load displays the pair the
\* load displayed (frame 0 of each logical stream when the streams have one)
\* and leaves the stream positions where the load left them.
C13_LoadThenStop ==
    [][op' = "stop_after_load"
          => /\ rendered' = rendered
             /\ cap1' = cap1 /\ cap2' = cap2
             /\ HasFirstPair => rendered' = <<FirstPair>>]_vars
C13_Witness ==
    /\ op = "stop_after_load" /\ Dual /\ HasFirstPair
    /\ rendered = <<FirstPair>> /\ cap1.idx = 0 /\ cap2.idx = 0

\* ------------------------------------------------------------------ C14
\* C14: Pause with the scheduler active stops it and sets is_paused, leaving
\* the stream positions and the seek indicator as they were; Pause with the
\* scheduler idle changes nothing.
C14_PauseKeepsPosition ==
    [][/\ op' = "pause_ok"
            => /\ timer_active /\ ~timer_active' /\ is_paused'
               /\ UNCHANGED <<cap1, cap2, slider_value>>
       /\ op' = "pause_idle"
            => /\ ~timer_active
               /\ UNCHANGED <<cap1, cap2, timer_active, timer_interval, is_paused,
                              is_overlay, single_video_mode, slider_value,
                              slider_max, play_enabled, pause_enabled,
                              stop_enabled, slider_enabled, toggle_enabled>>]_vars
\* playback was paused after some frames had been shown
C14_Witness ==
    op = "pause_ok" /\ is_paused /\ ~timer_active /\ cap1.idx > 0 /\ slider_value > 0

\* ------------------------------------------------------------------ C15
\* C15: whenever the view is Overlay, a stream is loaded: the first handle is
\* open.
C15_OverlayNeedsStream ==
    is_overlay => cap1.open

ToggleOps == {"toggle_overlay", "toggle_side_by_side"}
\* the pair at the streams' positions before the switch, on the surface `ov`
PairAt(ov) ==
    IF single_video_mode
    THEN [overlay |-> ov, left |-> Frame(cap1.idx, "left"),
                          right |-> Frame(cap1.idx, "right")]
    ELSE [overlay |-> ov, left |-> Frame(cap1.idx, "full1"),
                          right |-> Frame(cap2.idx, "full2")]
\* C17: a mode switch with a stream loaded sets the view and renders the
\* frame pair at the streams' position into the newly selected surface.
\* Stated for streams that have frames.
C17_ToggleRenders ==
    [][(op' \in ToggleOps /\ HasFirstPair)
          => /\ is_overlay' = (op' = "toggle_overlay")
             /\ rendered' = <<PairAt(is_overlay')>>]_vars

\* ------------------------------------------------------------------ C18
SeekOps == {"seek_shown", "seek_read_failed", "seek_no_video"}
\* the frame of the stream behind cap shown by the last handler is the one at
\* position ms, to within one frame period, whatever the position was before
ShownAt(cap, ms) ==
    Abs((cap.idx - 1) * FpsScale * MsPerSec - ms * cap.fps) <= FpsScale * MsPerSec
\* C18: a Seek-move leaves the scheduler state and is_paused as they were;
\* when it shows a pair, each stream has been positioned at the indicator's
\* value (absolute), one frame of each was read, and that pair was rendered
\* through the current view.
C18_SeekMoveIsAbsolute ==
    [][op' \in SeekOps
          => /\ UNCHANGED <<timer_active, is_paused, timer_interval, is_overlay>>
             /\ op' = "seek_shown"
                  => /\ ShownAt(cap1', slider_value')
                     /\ Dual => ShownAt(cap2', slider_value')
                     /\ Len(rendered') = 1
                     /\ rendered'[1].overlay = is_overlay
                     /\ rendered'[1].left.idx = cap1'.idx - 1
                     /\ rendered'[1].right.idx = StreamB'.idx - 1]_vars
\* a drag from the start to the middle of two clips showed the pair there
C18_Witness ==
    /\ op = "seek_shown" /\ Dual /\ slider_down /\ slider_value > 0
    /\ cap1.idx > 1 /\ cap2.idx > 1
    /\ rendered[1].left = Frame(cap1.idx - 1, "full1")

\* ------------------------------------------------------------------ C19
\* C19: a Seek-move whose frame read fails leaves the controller Stopped and
\* shows a blocking error dialog.  Stated for streams that have frames, where
\* the read fails because the drag went to the end.
C19_SeekReadFailureStops ==
    (op = "seek_read_failed" /\ HasFirstPair) => (Stopped /\ dialog = "critical")

\* ------------------------------------------------------------------ C20
\* 0.01 <= r <= 0.99
RatioInRange(r) == 100 * r.n >= r.d /\ 100 * r.n <= 99 * r.d
\* C20: the ratio stored by a move-while-dragging event lies in [0.01, 0.99],
\* for every pointer position and every image-area width.
C20_DragClamped ==
    [][(dragging /\ pointer'.ev = "move" /\ division' # division)
            => RatioInRange(division')]_vars

\* ------------------------------------------------------------------ C21
\* C21: the dragging flag is raised only by a left-button press with both
\* frames present and x within handle_width of the divider; the ratio changes
\* only by a move while dragging or by set_division; a move leaves the flag
\* as it is and a hover move leaves the ratio; every release clears the flag.
C21_DragStateMachine ==
    [][/\ (~dragging /\ dragging')
            => /\ pointer'.ev = "press" /\ pointer'.button = "left"
               /\ overlay_frames
               /\ Abs(pointer'.x - division_x) <= handle_width
       /\ division' # division
            => \/ pointer'.ev = "move" /\ dragging
               \/ pointer'.ev = "set_division"
       /\ pointer'.ev = "move" => dragging' = dragging
       /\ pointer'.ev = "release" => ~dragging']_vars
\* a drag was accepted, moved the divider and was ended by a release
C21_Witness ==
    /\ pointer.ev = "release" /\ ~dragging
    /\ division.d = image_area_width /\ division.n # image_area_width \div 2

\* ------------------------------------------------------------------ C27
RatioIn01(r) == r.n >= 0 /\ r.n <= r.d
\* C27: for every ratio in [0, 1] and every geometry the divider is drawn at
\* split_x within [image_area_x, image_area_x + image_area_width].
C27_SplitInsideImageArea ==
    RatioIn01(division)
        => /\ image_area_x <= division_x
           /\ division_x <= image_area_x + image_area_width
\* ratio 1 on an image area narrower than the widget: the right edge
C27_Witness ==
    /\ division = Rat(1, 1) /\ image_area_width = 90 /\ widget_width = 400
    /\ division_x = 245

\* ------------------------------------------------------------------ C25
EffectiveFps == IF single_video_mode THEN fps1 ELSE Max(fps1, fps2)
\* 1000 / fps rounded to the nearest whole millisecond, fps in 1/FpsScale
NearestMs(fps) == (2 * FpsScale * MsPerSec + fps) \div (2 * fps)
\* C25: after a successful Play the tick interval is round(1000 / max(fps_a,
\* fps_b)) milliseconds and at least 1.
C25_IntervalIsRounded ==
    op = "play_ok"
        => timer_interval = NearestMs(EffectiveFps) /\ timer_interval >= 1

\* ------------------------------------------------------------------ C26
\* C26: a Tick whose reads succeed and that does not end playback sets the
\* indicator to min(pos_a, pos_b) (bounded to its range), draws one pair and
\* leaves each stream exactly one frame further: the Seek-move handler did
\* not run.
C26_TickMovesIndicatorOnly ==
    [][op' = "tick_ok"
          => /\ slider_value' = Max(0, Min(RatInt(CurrentPos), slider_max))
             /\ cap1' = ReadCap(cap1)
             /\ cap2' = IF Dual THEN ReadCap(cap2) ELSE cap2
             /\ Len(rendered') = 1]_vars
\* a tick of the two-clip session moved the indicator off 0
C26_Witness ==
    op = "tick_ok" /\ Dual /\ slider_value > 0 /\ cap1.idx = 2 /\ cap2.idx = 2

\* ------------------------------------------------------------------ C30
\* C30: between a successful Load and the first successful Play (the interval
\* has never been set) a Seek-press and a Seek-release complete without
\* raising, leave the scheduler idle and leave the session as it was.
C30_SeekBeforeFirstPlay ==
    [][(timer_interval = NoneVal /\ slider_enabled /\ slider_down' # slider_down)
          => (alive' /\ ~timer_active' /\ UNCHANGED Session)]_vars

\* ------------------------------------------------------------------ C23
\* what a rejected request must leave alone: the session, the view, the
\* widgets' enablement and the slider
KeptByWarning == <<Session, is_overlay, overlay_frames, play_enabled, pause_enabled,
                   stop_enabled, slider_enabled, slider_value, slider_down,
                   toggle_enabled, toggle_checked, alive>>
C22_NarrowFrameEndsStopped ==
    (single_video_mode /\ cap1.open /\ cap1.frames > 0 /\ cap1.width < 2)
        => (alive /\ Stopped /\ dialog = "critical")

\* ------------------------------------------------------------------ C24
\* C24: the handles that are open are those of the captures the controller
\* refers to, after every handler (a Load that replaces captures releases
\* the previous ones); after the window has closed none is open.
C24_NoHandleLeft ==
    /\ open_handles = Held(cap1) + Held(cap2)
    /\ op = "closed" => open_handles = 0
\* the window was closed while two clips were playing
C24_Witness ==
    /\ op = "closed" /\ timer_active
    /\ cap1.present /\ cap1.frames > 0 /\ cap2.present /\ cap2.frames > 0
    /\ open_handles = 0

\* ------------------------------------------------------------------ C28
\* the halves of every pair drawn, as sets of columns of the stream's frames
DrawnHalves ==
    {<<Columns(rendered[k].left.part, cap1.width),
       Columns(rendered[k].right.part, cap1.width)>> :
        k \in {j \in 1 .. Len(rendered) : rendered[j].left # Kept}}
\* C28: in a one-clip session a frame of width W >= 2 is shown as a left half
\* of W div 2 columns and a right half of W - (W div 2) columns which share
\* no column and together hold every column; 640 gives 320 and 320.
C28_FrameBisected ==
    (single_video_mode /\ cap1.width >= 2)
        => \A h \in DrawnHalves :
              /\ Cardinality(h[1]) = cap1.width \div 2
              /\ Cardinality(h[2]) = cap1.width - (cap1.width \div 2)
              /\ h[1] \cap h[2] = {}
              /\ h[1] \cup h[2] = 0 .. (cap1.width - 1)
              /\ cap1.width = 640 => (Cardinality(h[1]) = 320 /\ Cardinality(h[2]) = 320)
\* a tick drew the halves of a frame three columns wide
C28_Witness ==
    /\ single_video_mode /\ cap1.width = 3 /\ op = "tick_ok"
    /\ DrawnHalves = {<<{0}, {1, 2}>>}

\* ------------------------------------------------------------------ C29
\* a tick in the side-by-side view reads its frames and display_frame fails
\* on at least one of them
DisplayFails ==
    /\ ~is_overlay /\ ReadOk(cap1) /\ (Dual => ReadOk(cap2))
    /\ ~cap1.displayable \/ (Dual /\ ~cap2.displayable)
\* C29: a Tick during which presenting a frame fails shows a modal message
\* and leaves the controller Stopped with the scheduler idle.
C29_DisplayFailureStops ==
    [][(op' \in TickOps /\ DisplayFails)
          => (dialog' = "critical" /\ Stopped' /\ ~timer_active')]_vars

\* ------------------------------------------------------------------ C31
\* C31: in every state with a stream loaded the scheduler is active exactly
\* when the Play button is disabled and the Pause button is enabled.
C31_ButtonsMatchScheduler ==
    (alive /\ cap1.open) => (timer_active <=> (~play_enabled /\ pause_enabled))

\* ------------------------------------------------------------------ C32
\* C32: in every state is_paused and an active scheduler exclude each other.
C32_PausedExcludesActive ==
    is_paused => ~timer_active
\* a press on the slider during playback paused it
C32_Witness ==
    op = "start_seek_paused" /\ is_paused /\ ~timer_active /\ slider_down

\* ------------------------------------------------------------------ C33
\* C33: a mode switch leaves both stream positions, the seek indicator, the
\* scheduler's state and the is_paused flag as they were.
C33_ToggleKeepsPlayback ==
    [][op' \in ToggleOps
          => /\ cap1'.idx = cap1.idx /\ cap2'.idx = cap2.idx
             /\ slider_value' = slider_value
             /\ timer_active' = timer_active /\ is_paused' = is_paused]_vars

====
